---- MODULE Spec2Model ----
(***************************************************************************)
(* Player-ranking engine: Online::rankIncoming over a VectorPlayerStream,  *)
(* Offline::heapRank and Offline::quickSelectRank, with the heap and       *)
(* partition helpers they drive.                                           *)
(*                                                                         *)
(* Vectors are sequences; the code's 0-based position p is element p + 1   *)
(* of the sequence (At, Swap).  A Player is a record of its level_ (the    *)
(* rank key) and its name_; a population names its players by position.    *)
(***************************************************************************)
EXTENDS Integers, Sequences, FiniteSets, TLC

VARIABLES
    population,          \* the players as handed to the call (never written)
    players_,            \* VectorPlayerStream::players_
    current_,            \* VectorPlayerStream::current_
    players,             \* the vector handed to an Offline selector
    pc,                  \* position of the running call
    op,                  \* the ranking function that was called
    reporting_interval,  \* rankIncoming parameter
    read,                \* rankIncoming local
    min_top,             \* rankIncoming local
    cutoffs_,            \* rankIncoming local
    top_10,              \* heapRank / quickSelectRank local
    i,                   \* heapRank loop counter
    result,              \* the returned RankingResult (top_, cutoffs_)
    fault,               \* an exception thrown or an out-of-range read made
    returned,            \* the players nextPlayer returned to a direct caller
    throws,              \* the exceptions nextPlayer raised to a direct caller
    args,                \* the arguments of the helper that was called
    touched,             \* the positions the called helper read or wrote
    frames               \* the pending calls of quickSelect and quickSort, innermost first

vars == <<population, players_, current_, players, pc, op, reporting_interval,
          read, min_top, cutoffs_, top_10, i, result, fault, returned, throws, args,
          touched, frames>>

-----------------------------------------------------------------------------
(* Bounds of the model *)

MaxStream == 5      \* longest exhaustively enumerated population
MaxLevel == 3       \* levels of the exhaustively enumerated populations
MaxInterval == 4    \* largest reporting_interval
MaxPop == 31        \* largest generated population (top_10 reaches 3)
MaxMod == 4         \* largest modulus of the generated populations

-----------------------------------------------------------------------------
(* Players and vectors *)

Player(name, level) == [name_ |-> name, level_ |-> level]

\* Player::operator< and operator>: players compare by level_ only
PlayerLess(a, b) == a.level_ < b.level_
PlayerGreater(a, b) == a.level_ > b.level_

At(v, p) == v[p + 1]
Swap(v, p, q) == [v EXCEPT ![p + 1] = v[q + 1], ![q + 1] = v[p + 1]]
Slice(v, from, to) == [x \in 1..(to - from) |-> v[from + x]]   \* [from, to)

\* a population with the given levels, each player named by its position
Named(levels) == [x \in 1..Len(levels) |-> Player(x, levels[x])]

RECURSIVE SeqsUpTo(_, _)
SeqsUpTo(S, n) ==
    IF n = 0 THEN {<<>>}
    ELSE LET shorter == SeqsUpTo(S, n - 1)
         IN shorter \cup {Append(s, x) : s \in {t \in shorter : Len(t) = n - 1}, x \in S}

\* every population of at most MaxStream players with levels 1..MaxLevel
SmallPopulations == {Named(s) : s \in SeqsUpTo(1..MaxLevel, MaxStream)}

\* the stream of the spec's concrete scenario (section 8)
ScenarioStream == Named(<<10, 50, 5, 90, 30>>)

\* generated populations of every size up to MaxPop: a sawtooth
\* (q * x * x + a * x + b) mod m laid over a falling, flat or rising trend
Trends == {-1, 0, 1}
Generated(n, m, q, a, b, c) ==
    Named([x \in 1..n |-> ((q * x * x + a * x + b) % m) + c * x + n + 1])
LargePopulations ==
    {Generated(n, m, q, a, b, c) :
        n \in 0..MaxPop, m \in 1..MaxMod, q \in 0..(MaxMod - 1),
        a \in 0..(MaxMod - 1), b \in 0..(MaxMod - 1), c \in Trends}

\* multiset of the levels of a vector
LevelBag(v) ==
    [l \in {v[x].level_ : x \in 1..Len(v)} |->
        Cardinality({x \in 1..Len(v) : v[x].level_ = l})]

\* number of players of v strictly above / at the level l
Above(v, l) == Cardinality({x \in 1..Len(v) : v[x].level_ > l})
AtLevel(v, l) == Cardinality({x \in 1..Len(v) : v[x].level_ = l})

\* t holds the k highest levels of v, ties included
IsTopOf(t, v, k) ==
    /\ Len(t) = k
    /\ \A l \in {v[x].level_ : x \in 1..Len(v)} \cup {t[x].level_ : x \in 1..Len(t)} :
          AtLevel(t, l) =
             IF Above(v, l) >= k THEN 0
             ELSE IF Above(v, l) + AtLevel(v, l) <= k THEN AtLevel(v, l)
             ELSE k - Above(v, l)

Min(a, b) == IF a < b THEN a ELSE b

MinLevel(v) == CHOOSE l \in {v[x].level_ : x \in 1..Len(v)} :
                  \A x \in 1..Len(v) : l <= v[x].level_

IsMinHeap(v) ==
    \A x \in 1..Len(v) : x > 1 => v[x \div 2].level_ <= v[x].level_
IsMaxHeap(v) ==
    \A x \in 1..Len(v) : x > 1 => v[x \div 2].level_ >= v[x].level_
IsAscending(v) ==
    \A x \in 1..(Len(v) - 1) : v[x].level_ <= v[x + 1].level_

-----------------------------------------------------------------------------
(* VectorPlayerStream *)

\* remaining() that counts one player too few
remainingOffByOne(ps, cur) == Len(ps) - cur - 1

\* size_t VectorPlayerStream::remaining() const
remaining(ps, cur) == Len(ps) - cur

\* nextPlayer that advances the cursor before it tests for exhaustion
nextPlayerAdvancesFirst(ps, cur) ==
    IF Len(ps) - cur > 0
    THEN [thrown |-> FALSE, current_ |-> cur + 1, player |-> ps[cur + 1]]
    ELSE [thrown |-> TRUE, current_ |-> cur + 1, player |-> Player(0, 0)]

\* Player VectorPlayerStream::nextPlayer(): the player and the advanced
\* cursor, or the thrown std::runtime_error with the cursor left alone
nextPlayer(ps, cur) ==
    IF remaining(ps, cur) > 0
    THEN [thrown |-> FALSE, current_ |-> cur + 1, player |-> ps[cur + 1]]
    ELSE [thrown |-> TRUE, current_ |-> cur, player |-> Player(0, 0)]

-----------------------------------------------------------------------------
(* Heap primitives *)

\* the while loop of Online::percolateDown: itr, start and end are positions
\* of v, temp the copy of *root taken on entry
RECURSIVE percolateDownLoop(_, _, _, _, _, _)
percolateDownLoop(v, itr, start, end, max, temp) ==
    LET idx == itr - start
    IN IF ~(2 * idx + 1 < end - start) THEN v
       ELSE LET left == start + 2 * idx + 1
                child ==
                    IF left + 1 # end
                    THEN IF max /\ PlayerLess(At(v, left), At(v, left + 1))
                         THEN left + 1
                         ELSE IF ~max /\ PlayerLess(At(v, left + 1), At(v, left))
                         THEN left + 1
                         ELSE left
                    ELSE left
            IN IF max /\ PlayerGreater(At(v, child), temp)
               THEN percolateDownLoop(Swap(v, itr, child), child, start, end, max, temp)
               ELSE IF ~max /\ PlayerLess(At(v, child), temp)
               THEN percolateDownLoop(Swap(v, itr, child), child, start, end, max, temp)
               ELSE v

\* percolateDown that never looks at the right child
RECURSIVE percolateDownLeftOnlyLoop(_, _, _, _, _, _)
percolateDownLeftOnlyLoop(v, itr, start, end, max, temp) ==
    LET idx == itr - start
    IN IF ~(2 * idx + 1 < end - start) THEN v
       ELSE LET child == start + 2 * idx + 1
            IN IF \/ max /\ PlayerGreater(At(v, child), temp)
                  \/ ~max /\ PlayerLess(At(v, child), temp)
               THEN percolateDownLeftOnlyLoop(Swap(v, itr, child), child, start,
                                              end, max, temp)
               ELSE v
percolateDownLeftOnly(v, root, start, end, max) ==
    percolateDownLeftOnlyLoop(v, root, start, end, max, At(v, root))

\* void Online::percolateDown(PlayerIt root, PlayerIt start, PlayerIt end, bool max)
percolateDown(v, root, start, end, max) ==
    percolateDownLoop(v, root, start, end, max, At(v, root))

\* replaceMin that overwrites the root and leaves it where it is
replaceMinNoPercolate(v, first, last, target) == [v EXCEPT ![first + 1] = target]

\* void Online::replaceMin(PlayerIt first, PlayerIt last, Player& target)
replaceMin(v, first, last, target) ==
    percolateDown([v EXCEPT ![first + 1] = target], first, first, last, FALSE)

\* std::make_heap over the whole vector (std::less gives a max-heap,
\* std::greater a min-heap): every internal node, last to first, sifted down
RECURSIVE MakeHeapFrom(_, _, _)
MakeHeapFrom(v, node, max) ==
    IF node < 0 THEN v
    ELSE MakeHeapFrom(percolateDown(v, node, 0, Len(v), max), node - 1, max)
MakeHeap(v, max) == MakeHeapFrom(v, (Len(v) \div 2) - 1, max)

\* std::pop_heap(begin, begin + last): the maximum goes to position last - 1
\* and [0, last - 1) is made a max-heap again
PopHeap(v, last) ==
    IF last <= 1 THEN v
    ELSE percolateDown(Swap(v, 0, last - 1), 0, 0, last - 1, TRUE)

\* std::sort(begin, end): ascending by operator<
RECURSIVE InsertSorted(_, _)
InsertSorted(sorted, p) ==
    IF sorted = <<>> THEN <<p>>
    ELSE IF PlayerLess(p, sorted[Len(sorted)])
         THEN Append(InsertSorted(SubSeq(sorted, 1, Len(sorted) - 1), p), sorted[Len(sorted)])
         ELSE Append(sorted, p)
RECURSIVE SortPrefix(_, _)
SortPrefix(v, n) ==
    IF n = 0 THEN <<>> ELSE InsertSorted(SortPrefix(v, n - 1), v[n])
Sort(v) == SortPrefix(v, Len(v))

-----------------------------------------------------------------------------
(* std::unordered_map<size_t, size_t> *)

EmptyMap == [k \in {} |-> 0]

\* unordered_map::insert: an existing key keeps its value
MapInsert(m, k, val) == IF k \in DOMAIN m THEN m ELSE m @@ (k :> val)

-----------------------------------------------------------------------------
(* Online::rankIncoming *)

NoResult == [top_ |-> <<>>, cutoffs_ |-> EmptyMap]

\* no helper was called
NoArgs ==
    [root |-> 0, start |-> 0, end |-> 0, max |-> FALSE, target |-> Player(0, 0)]

\* what a read of element 0 of an empty vector may yield
GarbageLevels == 0..MaxLevel

\* the loop test that stops with one player left
LoopCondLeavesLast == remaining(players_, current_) > 1

\* the loop test that a size_t always passes
LoopCondNonNegative == remaining(players_, current_) >= 0

\* while (stream.remaining() > 0)
LoopCond == remaining(players_, current_) > 0

\* the replace test that keeps the incumbent on a tie
ShouldReplaceStrict(current_player, heap) == current_player.level_ > heap[1].level_

\* the replace test with the comparison turned round
ShouldReplaceBelow(current_player, heap) == current_player.level_ <= heap[1].level_

\* if (current_player.level_ >= min_top.front().level_)
ShouldReplace(current_player, heap) == current_player.level_ >= heap[1].level_

\* the cutoff test without the interval
RecordsCutoffEveryRead(rd, interval, heap) == heap # <<>>

\* if (read % reporting_interval == 0 && !min_top.empty())
RecordsCutoff(rd, interval, heap) == rd % interval = 0 /\ heap # <<>>

\* the iteration that builds a max-heap at read == reporting_interval
NextMinTopMaxHeap(heap, current_player, rd, interval) ==
    IF rd < interval THEN Append(heap, current_player)
    ELSE IF rd = interval THEN MakeHeap(Append(heap, current_player), TRUE)
    ELSE IF ShouldReplace(current_player, heap)
         THEN replaceMin(heap, 0, Len(heap), current_player)
         ELSE heap

\* min_top after the if / else if / else of one loop iteration
NextMinTop(heap, current_player, rd, interval) ==
    IF rd < interval THEN Append(heap, current_player)
    ELSE IF rd = interval THEN MakeHeap(Append(heap, current_player), FALSE)
    ELSE IF ShouldReplace(current_player, heap)
         THEN replaceMin(heap, 0, Len(heap), current_player)
         ELSE heap

\* entry of rankIncoming: the locals as declared
RankIncomingCall ==
    /\ pc = "idle"
    /\ \E interval \in 1..MaxInterval : reporting_interval' = interval
    /\ pc' = "loop"
    /\ op' = "rankIncoming"
    /\ read' = 0
    /\ min_top' = <<>>
    /\ cutoffs_' = EmptyMap
    /\ UNCHANGED <<frames, returned, throws, args, touched,
                   population, players_, current_, players, top_10, i, result, fault>>

\* one iteration of the while loop
LoopIteration ==
    /\ pc = "loop"
    /\ LoopCond
    /\ LET next == nextPlayer(players_, current_)
           rd == read + 1
           heap == NextMinTop(min_top, next.player, rd, reporting_interval)
       IN IF next.thrown
          THEN /\ pc' = "thrown"
               /\ fault' = "exhausted"
               /\ UNCHANGED <<current_, read, min_top, cutoffs_>>
          ELSE /\ current_' = next.current_
               /\ read' = rd
               /\ min_top' = heap
               /\ cutoffs_' = IF RecordsCutoff(rd, reporting_interval, heap)
                              THEN MapInsert(cutoffs_, rd, heap[1].level_)
                              ELSE cutoffs_
               /\ UNCHANGED <<pc, fault>>
    /\ UNCHANGED <<frames, returned, throws, args, touched,
                   population, players_, players, op, reporting_interval, top_10, i, result>>

\* after the loop: the terminal cutoff, the sort and the return.  min_top[0]
\* of an empty min_top is an out-of-range read: the call crashes, or goes on
\* with whatever the read yields
RankIncomingReturn ==
    /\ pc = "loop"
    /\ ~LoopCond
    /\ IF min_top = <<>>
       THEN /\ fault' = "oob_read"
            /\ \/ /\ pc' = "crashed"
                  /\ UNCHANGED <<cutoffs_, result>>
               \/ \E g \in GarbageLevels :
                     /\ cutoffs_' = MapInsert(cutoffs_, read, g)
                     /\ result' = [top_ |-> Sort(min_top), cutoffs_ |-> cutoffs_']
                     /\ pc' = "done"
       ELSE /\ cutoffs_' = MapInsert(cutoffs_, read, min_top[1].level_)
            /\ result' = [top_ |-> Sort(min_top), cutoffs_ |-> cutoffs_']
            /\ pc' = "done"
            /\ UNCHANGED fault
    /\ UNCHANGED <<frames, returned, throws, args, touched,
                   population, players_, current_, players, op, reporting_interval, read,
                   min_top, top_10, i>>

Init ==
    /\ population \in SmallPopulations \cup {ScenarioStream}
    /\ players_ = population
    /\ current_ = 0
    /\ players = <<>>
    /\ pc = "idle"
    /\ op = "none"
    /\ reporting_interval = 1
    /\ read = 0
    /\ min_top = <<>>
    /\ cutoffs_ = EmptyMap
    /\ top_10 = 0
    /\ i = 0
    /\ result = NoResult
    /\ fault = "none"
    /\ returned = <<>>
    /\ throws = 0
    /\ args = NoArgs
    /\ touched = {}
    /\ frames = <<>>

Next ==
    \/ RankIncomingCall
    \/ LoopIteration
    \/ RankIncomingReturn

Spec == Init /\ [][Next]_vars

\* a call of rankIncoming, once entered, runs on: nothing suspends the loop
\* or the return
\* the streams the termination of a call is followed on
MaxLiveStream == 4

InitLive == Init /\ Len(population) <= MaxLiveStream

SpecLive ==
    InitLive /\ [][Next]_vars /\ WF_vars(LoopIteration) /\ WF_vars(RankIncomingReturn)

-----------------------------------------------------------------------------
(* Partition, selection and sort helpers of the Offline selectors *)

\* a read of position p of v falls outside the vector
OutOfRange(v, p) == p < 0 \/ p >= Len(v)

\* the for loop of Offline::lomuto_partition: next store position idx, scan
\* position j
RECURSIVE lomutoLoop(_, _, _, _, _)
lomutoLoop(array, idx, j, high, pivot) ==
    IF ~(j < high) THEN [array |-> array, i |-> idx]
    ELSE IF PlayerGreater(At(array, j), At(array, pivot))
         THEN lomutoLoop(Swap(array, idx, j), idx + 1, j + 1, high, pivot)
         ELSE lomutoLoop(array, idx, j + 1, high, pivot)

\* the lomuto comparison turned round: the lower players move left
RECURSIVE lomutoLoopAscending(_, _, _, _, _)
lomutoLoopAscending(array, idx, j, high, pivot) ==
    IF ~(j < high) THEN [array |-> array, i |-> idx]
    ELSE IF PlayerLess(At(array, j), At(array, pivot))
         THEN lomutoLoopAscending(Swap(array, idx, j), idx + 1, j + 1, high, pivot)
         ELSE lomutoLoopAscending(array, idx, j + 1, high, pivot)
lomuto_partitionAscending(array, low, high, pivot) ==
    LET scanned == lomutoLoopAscending(array, low, low, high, pivot)
    IN [array |-> Swap(scanned.array, pivot, scanned.i), index |-> scanned.i]

\* lomuto_partition without the swap that puts the pivot in its place
lomuto_partitionNoPivotSwap(array, low, high, pivot) ==
    LET scanned == lomutoLoop(array, low, low, high, pivot)
    IN [array |-> scanned.array, index |-> scanned.i]

\* int Offline::lomuto_partition(std::vector<T>& array, int low, int high, int pivot):
\* the partitioned vector and the returned index
lomuto_partition(array, low, high, pivot) ==
    LET scanned == lomutoLoop(array, low, low, high, pivot)
    IN [array |-> Swap(scanned.array, pivot, scanned.i), index |-> scanned.i]

\* do { i++; } while ((array[i] < pivot_value) && i <= high): the position the
\* scan stops at and whether it read outside the vector.  The value of an
\* out-of-range read cannot prolong the scan, i <= high being false there
RECURSIVE hoareScanUp(_, _, _, _)
hoareScanUp(array, idx, high, pivot_value) ==
    LET nxt == idx + 1
    IN IF OutOfRange(array, nxt) THEN [at |-> nxt, oob |-> TRUE]
       ELSE IF PlayerLess(At(array, nxt), pivot_value) /\ nxt <= high
            THEN hoareScanUp(array, nxt, high, pivot_value)
            ELSE [at |-> nxt, oob |-> FALSE]

\* do { j--; } while ((array[j] > pivot_value) && j >= low)
RECURSIVE hoareScanDown(_, _, _, _)
hoareScanDown(array, idx, low, pivot_value) ==
    LET nxt == idx - 1
    IN IF OutOfRange(array, nxt) THEN [at |-> nxt, oob |-> TRUE]
       ELSE IF PlayerGreater(At(array, nxt), pivot_value) /\ nxt >= low
            THEN hoareScanDown(array, nxt, low, pivot_value)
            ELSE [at |-> nxt, oob |-> FALSE]

\* the while (true) loop of Offline::hoare_partition
RECURSIVE hoareLoop(_, _, _, _, _, _, _)
hoareLoop(array, idx, j, low, high, pivot_value, oob) ==
    LET up == hoareScanUp(array, idx, high, pivot_value)
        down == hoareScanDown(array, j, low, pivot_value)
        seen == oob \/ up.oob \/ down.oob
    IN IF up.at > down.at
       THEN [array |-> array, index |-> down.at, oob |-> seen]
       ELSE hoareLoop(Swap(array, up.at, down.at), up.at, down.at, low, high,
                      pivot_value, seen)

\* hoare_partition that stops as soon as the scans meet
RECURSIVE hoareLoopMeet(_, _, _, _, _, _, _)
hoareLoopMeet(array, idx, j, low, high, pivot_value, oob) ==
    LET up == hoareScanUp(array, idx, high, pivot_value)
        down == hoareScanDown(array, j, low, pivot_value)
        seen == oob \/ up.oob \/ down.oob
    IN IF up.at >= down.at
       THEN [array |-> array, index |-> down.at, oob |-> seen]
       ELSE hoareLoopMeet(Swap(array, up.at, down.at), up.at, down.at, low, high,
                          pivot_value, seen)
hoare_partitionMeet(array, low, high, pivot) ==
    hoareLoopMeet(array, low - 1, high + 1, low, high, At(array, pivot), FALSE)

\* int Offline::hoare_partition(std::vector<T>& array, int low, int high, int pivot)
hoare_partition(array, low, high, pivot) ==
    hoareLoop(array, low - 1, high + 1, low, high, At(array, pivot), FALSE)

\* void Offline::quickSelect(std::vector<T>& array, int low, int high, int k)
RECURSIVE quickSelect(_, _, _, _)
quickSelect(array, low, high, k) ==
    IF low <= high /\ low >= 0
    THEN LET part == lomuto_partition(array, low, high, high)
         IN IF part.index < k
            THEN quickSelect(part.array, part.index + 1, high, k)
            ELSE quickSelect(part.array, low, part.index - 1, k)
    ELSE array

\* quickSort without its second recursive call
RECURSIVE quickSortLowerOnly(_, _, _)
quickSortLowerOnly(array, low, high) ==
    IF low < high /\ low >= 0
    THEN LET part == hoare_partition(array, low, high, high)
             lower == quickSortLowerOnly(part.array, low, part.index)
         IN [array |-> lower.array, oob |-> part.oob \/ lower.oob]
    ELSE [array |-> array, oob |-> FALSE]

\* void Offline::quickSort(std::vector<T>& array, int low, int high): the
\* sorted vector and whether a partition read outside the vector
RECURSIVE quickSort(_, _, _)
quickSort(array, low, high) ==
    IF low < high /\ low >= 0
    THEN LET part == hoare_partition(array, low, high, high)
             lower == quickSort(part.array, low, part.index)
             upper == quickSort(lower.array, part.index + 1, high)
         IN [array |-> upper.array, oob |-> part.oob \/ lower.oob \/ upper.oob]
    ELSE [array |-> array, oob |-> FALSE]

\* std::floor(0.1 * players.size()), exact for the sizes of the model
TopTenth(n) == n \div 10

-----------------------------------------------------------------------------
(* Offline::heapRank *)

\* the range of the pop that leaves the end out: players.end() every time
PopRangeWhole(v, done) == Len(v)

\* players.end() - i in std::pop_heap(players.begin(), players.end() - i)
PopRange(v, done) == Len(v) - done

\* entry of heapRank: the early return, or top_10 and std::make_heap
HeapRankCall ==
    /\ pc = "idle"
    /\ op' = "heapRank"
    /\ IF Len(players) <= 1
       THEN /\ result' = [top_ |-> players, cutoffs_ |-> EmptyMap]
            /\ pc' = "done"
            /\ UNCHANGED <<players, top_10, i>>
       ELSE /\ top_10' = TopTenth(Len(players))
            /\ players' = MakeHeap(players, TRUE)
            /\ i' = 0
            /\ pc' = "pop"
            /\ UNCHANGED result
    /\ UNCHANGED <<frames, returned, throws, args, touched,
                   population, players_, current_, reporting_interval, read, min_top,
                   cutoffs_, fault>>

\* one iteration of for (int i = 0; i < top_10; ++i)
HeapRankPop ==
    /\ pc = "pop"
    /\ i < top_10
    /\ players' = PopHeap(players, PopRange(players, i))
    /\ i' = i + 1
    /\ UNCHANGED <<frames, returned, throws, args, touched,
                   population, players_, current_, pc, op, reporting_interval, read,
                   min_top, cutoffs_, top_10, result, fault>>

\* the return of heapRank: the last top_10 players
HeapRankReturn ==
    /\ pc = "pop"
    /\ ~(i < top_10)
    /\ result' = [top_ |-> Slice(players, Len(players) - top_10, Len(players)),
                  cutoffs_ |-> EmptyMap]
    /\ pc' = "done"
    /\ UNCHANGED <<frames, returned, throws, args, touched,
                   population, players_, current_, players, op, reporting_interval, read,
                   min_top, cutoffs_, top_10, i, fault>>

-----------------------------------------------------------------------------
(* Offline::quickSelectRank *)

\* top_10 and quickSelect(players, 0, players.size() - 1, top_10); the
\* size_t players.size() - 1 of an empty vector arrives as the int -1
QuickSelectRankCall ==
    /\ pc = "idle"
    /\ op' = "quickSelectRank"
    /\ top_10' = TopTenth(Len(players))
    /\ players' = quickSelect(players, 0, Len(players) - 1, top_10')
    /\ pc' = "selected"
    /\ UNCHANGED <<frames, returned, throws, args, touched,
                   population, players_, current_, reporting_interval, read, min_top,
                   cutoffs_, i, result, fault>>

\* quickSort(players, 0, top_10 - 1) and the return of the first top_10
\* players; a partition that read outside the vector crashes the call or
\* goes on
QuickSelectRankSort ==
    /\ pc = "selected"
    /\ LET sorted == quickSort(players, 0, top_10 - 1)
       IN /\ fault' = IF sorted.oob THEN "oob_read" ELSE fault
          /\ \/ /\ sorted.oob
                /\ pc' = "crashed"
                /\ UNCHANGED <<players, result>>
             \/ /\ players' = sorted.array
                /\ result' = [top_ |-> Slice(sorted.array, 0, top_10),
                              cutoffs_ |-> EmptyMap]
                /\ pc' = "done"
    /\ UNCHANGED <<frames, returned, throws, args, touched,
                   population, players_, current_, op, reporting_interval, read, min_top,
                   cutoffs_, top_10, i>>

InitOffline ==
    /\ population \in SmallPopulations \cup LargePopulations
    /\ players = population
    /\ players_ = <<>>
    /\ current_ = 0
    /\ pc = "idle"
    /\ op = "none"
    /\ reporting_interval = 1
    /\ read = 0
    /\ min_top = <<>>
    /\ cutoffs_ = EmptyMap
    /\ top_10 = 0
    /\ i = 0
    /\ result = NoResult
    /\ fault = "none"
    /\ returned = <<>>
    /\ throws = 0
    /\ args = NoArgs
    /\ touched = {}
    /\ frames = <<>>

NextOffline ==
    \/ HeapRankCall
    \/ HeapRankPop
    \/ HeapRankReturn
    \/ QuickSelectRankCall
    \/ QuickSelectRankSort

SpecOffline == InitOffline /\ [][NextOffline]_vars

-----------------------------------------------------------------------------
(* Properties of rankIncoming *)

total == Len(players_)
Returned == pc = "done" /\ op = "rankIncoming"

\* the k-th highest level of v (1 <= k <= Len(v))
KthLargestLevel(v, k) ==
    CHOOSE l \in {v[x].level_ : x \in 1..Len(v)} :
        Above(v, l) < k /\ k <= Above(v, l) + AtLevel(v, l)

\* C1: for a stream of total >= 1 players and any reporting_interval >= 1,
\* the returned top_ has min(reporting_interval, total) players and their
\* levels are the min(reporting_interval, total) highest levels of the
\* stream, ties included
C1_TopOfStream ==
    (Returned /\ total >= 1) =>
        IsTopOf(result.top_, players_, Min(reporting_interval, total))

\* a call returned after a player beyond the first reporting_interval ones
\* tied with the lowest level of the returned top_
C1_Witness ==
    /\ Returned
    /\ total > reporting_interval
    /\ \E x \in (reporting_interval + 1)..total :
          /\ players_[x].level_ = result.top_[1].level_
          /\ \E y \in 1..reporting_interval : players_[y].level_ < players_[x].level_

\* C6: for total >= 1 the keys of the returned cutoffs_ are the multiples of
\* reporting_interval in 1..total together with total
C6_CutoffKeys ==
    (Returned /\ total >= 1) =>
        DOMAIN result.cutoffs_ =
            {m \in 1..total : m % reporting_interval = 0} \cup {total}

\* a call returned with total beyond the interval and not a multiple of it
C6_Witness ==
    /\ Returned
    /\ total > reporting_interval
    /\ total % reporting_interval # 0
    /\ Cardinality(DOMAIN result.cutoffs_) >= 2

\* C7: for total >= 1 the terminal cutoff cutoffs_[total] is the lowest level
\* of the returned top_
C7_TerminalCutoffIsMinimum ==
    (Returned /\ total >= 1) =>
        result.cutoffs_[total] = MinLevel(result.top_)

\* C8: the cutoff recorded at a milestone m, a positive multiple of
\* reporting_interval, is the reporting_interval-th highest level of the
\* first m players of the stream; the stream 10, 50, 5, 90, 30 read with
\* interval 2 returns the cutoffs 2 -> 10, 4 -> 50, 5 -> 50
C8_MilestoneCutoffs ==
    /\ op = "rankIncoming" =>
          \A m \in DOMAIN cutoffs_ :
              (m >= 1 /\ m % reporting_interval = 0) =>
                  cutoffs_[m] =
                      KthLargestLevel(SubSeq(players_, 1, m), reporting_interval)
    /\ (Returned /\ players_ = ScenarioStream /\ reporting_interval = 2) =>
          result.cutoffs_ = (2 :> 10) @@ (4 :> 50) @@ (5 :> 50)

\* the scenario stream read to its end with interval 2
C8_Witness ==
    /\ Returned
    /\ players_ = ScenarioStream
    /\ reporting_interval = 2
    /\ 4 \in DOMAIN result.cutoffs_

\* C9: on a stream of zero players rankIncoming returns an empty top_ and an
\* empty cutoffs_ and makes no read of min_top[0]
C9_EmptyStreamGuarded ==
    (op = "rankIncoming" /\ total = 0 /\ pc \notin {"idle", "loop"}) =>
        /\ pc = "done"
        /\ result.top_ = <<>>
        /\ result.cutoffs_ = EmptyMap
        /\ fault = "none"

\* C10: every nextPlayer call of rankIncoming is made with remaining() > 0
\* and none raises the exhausted-source error
C10_PullsOnlyWhenRemaining ==
    [][(pc = "loop" /\ (current_' # current_ \/ pc' = "thrown")) =>
          (remaining(players_, current_) > 0 /\ pc' # "thrown")]_vars

\* the loop has pulled the last player of a non-empty stream
C10_Witness ==
    /\ pc = "loop"
    /\ total >= 1
    /\ current_ = total
    /\ read = total

-----------------------------------------------------------------------------
(* Properties of the Offline selectors *)

size == Len(population)
ReturnedOffline == pc = "done" /\ op \in {"heapRank", "quickSelectRank"}

\* every player at a position in [0, k) is at least every player in [k, n)
PrefixDominates(v, k) ==
    \A x \in 1..k : \A y \in (k + 1)..Len(v) : v[x].level_ >= v[y].level_

\* C2: after the quickSelect phase of quickSelectRank every player in
\* [0, top_10) is at least every player in [top_10, n) and players is a
\* permutation of the population; the returned top_ holds the top_10 highest
\* levels of the population
C2_QuickSelectTop ==
    /\ (op = "quickSelectRank" /\ pc = "selected") =>
          /\ top_10 = TopTenth(size)
          /\ LevelBag(players) = LevelBag(population)
          /\ PrefixDominates(players, top_10)
    /\ (op = "quickSelectRank" /\ pc = "done") =>
          IsTopOf(result.top_, population, TopTenth(size))

\* the quickSelect phase ended on a population whose first top_10 >= 2
\* players were not its highest and whose top_10-th level is tied
C2_Witness ==
    /\ op = "quickSelectRank"
    /\ pc = "selected"
    /\ top_10 >= 2
    /\ ~PrefixDominates(population, top_10)
    /\ players[top_10].level_ = players[top_10 + 1].level_

\* C3: in heapRank on n >= 2 players, after the i-th pop the last i positions
\* hold the i highest levels and the first n - i positions form a max-heap;
\* the returned top_ holds the top_10 highest levels of the population
C3_HeapRankTop ==
    /\ (op = "heapRank" /\ pc = "pop") =>
          /\ LevelBag(players) = LevelBag(population)
          /\ IsMaxHeap(Slice(players, 0, size - i))
          /\ IsTopOf(Slice(players, size - i, size), population, i)
    /\ (op = "heapRank" /\ pc = "done" /\ size >= 2) =>
          IsTopOf(result.top_, population, TopTenth(size))

\* the second pop of a heapRank call is done on a population that was no
\* max-heap
C3_Witness ==
    /\ op = "heapRank"
    /\ pc = "pop"
    /\ i = 2
    /\ ~IsMaxHeap(population)

\* C4: the top_ returned by heapRank and by quickSelectRank is non-decreasing
\* by level
C4_TopAscending == ReturnedOffline => IsAscending(result.top_)

\* quickSelectRank returned three players of three levels from a population
\* whose three first players were not in ascending order
C4_Witness ==
    /\ pc = "done"
    /\ op = "quickSelectRank"
    /\ Len(result.top_) >= 3
    /\ result.top_[1].level_ < result.top_[2].level_
    /\ result.top_[2].level_ < result.top_[3].level_
    /\ ~IsAscending(Slice(population, 0, 3))

\* C5: both Offline selectors return exactly floor(0.1 * n) players for
\* every population size n >= 0
C5_SizeLaw == ReturnedOffline => Len(result.top_) = TopTenth(size)

-----------------------------------------------------------------------------
(* A caller that pulls from a VectorPlayerStream itself *)

MaxThrows == 2      \* exceptions a caller goes on to provoke

\* one call of nextPlayer by the caller, caught if it throws
StreamNextPlayer ==
    /\ pc = "idle"
    /\ throws < MaxThrows
    /\ LET next == nextPlayer(players_, current_)
       IN IF next.thrown
          THEN /\ throws' = throws + 1
               /\ fault' = "exhausted"
               /\ current_' = next.current_
               /\ UNCHANGED returned
          ELSE /\ current_' = next.current_
               /\ returned' = Append(returned, next.player)
               /\ UNCHANGED <<throws, fault>>
    /\ op' = "nextPlayer"
    /\ UNCHANGED <<frames, args, touched, population, players_, players, pc,
                   reporting_interval, read, min_top, cutoffs_, top_10, i, result>>

NextStream == StreamNextPlayer

SpecStream == Init /\ [][NextStream]_vars

-----------------------------------------------------------------------------
(* The heap primitives called on a range of a vector *)

\* the loop reading child + 1 without the test against end
RECURSIVE percolateDownTouchedPastEnd(_, _, _, _, _, _)
percolateDownTouchedPastEnd(v, itr, start, end, max, temp) ==
    LET idx == itr - start
    IN IF ~(2 * idx + 1 < end - start) THEN {}
       ELSE LET left == start + 2 * idx + 1
                pair == {left, left + 1}
                child ==
                    IF left + 1 # end
                    THEN IF max /\ PlayerLess(At(v, left), At(v, left + 1))
                         THEN left + 1
                         ELSE IF ~max /\ PlayerLess(At(v, left + 1), At(v, left))
                         THEN left + 1
                         ELSE left
                    ELSE left
                swaps == \/ max /\ PlayerGreater(At(v, child), temp)
                         \/ ~max /\ PlayerLess(At(v, child), temp)
            IN IF swaps
               THEN pair \cup {itr, child} \cup
                    percolateDownTouchedPastEnd(Swap(v, itr, child), child, start,
                                                end, max, temp)
               ELSE pair

\* the positions the while loop of Online::percolateDown reads or writes
\* from itr on: both children where child + 1 is not end, else the left
\* child alone, and itr and the child it swaps
RECURSIVE percolateDownTouched(_, _, _, _, _, _)
percolateDownTouched(v, itr, start, end, max, temp) ==
    LET idx == itr - start
    IN IF ~(2 * idx + 1 < end - start) THEN {}
       ELSE LET left == start + 2 * idx + 1
                pair == IF left + 1 # end THEN {left, left + 1} ELSE {left}
                child ==
                    IF left + 1 # end
                    THEN IF max /\ PlayerLess(At(v, left), At(v, left + 1))
                         THEN left + 1
                         ELSE IF ~max /\ PlayerLess(At(v, left + 1), At(v, left))
                         THEN left + 1
                         ELSE left
                    ELSE left
                swaps == \/ max /\ PlayerGreater(At(v, child), temp)
                         \/ ~max /\ PlayerLess(At(v, child), temp)
            IN IF swaps
               THEN pair \cup {itr, child} \cup
                    percolateDownTouched(Swap(v, itr, child), child, start, end,
                                         max, temp)
               ELSE pair

\* the positions one call of Online::percolateDown reads or writes: *root for
\* temp, then those of the loop
percolateDownAccess(v, root, start, end, max) ==
    {root} \cup percolateDownTouched(v, root, start, end, max, At(v, root))

\* a call of Online::percolateDown: the vector after it, the positions it
\* touched and whether the read of *root fell outside the vector (the loop
\* is not entered then, root being at end or beyond)
percolateDownCall(v, root, start, end, max) ==
    IF OutOfRange(v, root)
    THEN [v |-> v, touched |-> {root}, oob |-> TRUE]
    ELSE [v |-> percolateDown(v, root, start, end, max),
          touched |-> percolateDownAccess(v, root, start, end, max),
          oob |-> FALSE]

\* the while loop of Online::buildHeap: mid_itr down to first
RECURSIVE buildHeapLoop(_, _, _, _)
buildHeapLoop(call, mid_itr, first, last) ==
    IF ~(mid_itr # first - 1) THEN call
    ELSE LET down == percolateDownCall(call.v, mid_itr, first, last, FALSE)
         IN buildHeapLoop([v |-> down.v,
                           touched |-> call.touched \cup down.touched,
                           oob |-> call.oob \/ down.oob],
                          mid_itr - 1, first, last)

\* buildHeap that starts at the last internal node and stops above first
buildHeapSkipsRoot(v, first, last) ==
    IF last - first < 2 THEN [v |-> v, touched |-> {}, oob |-> FALSE]
    ELSE buildHeapLoop([v |-> v, touched |-> {}, oob |-> FALSE],
                       first + ((last - first) \div 2), first + 1, last)

\* void Online::buildHeap(PlayerIt first, PlayerIt last)
buildHeap(v, first, last) ==
    buildHeapLoop([v |-> v, touched |-> {}, oob |-> FALSE],
                  first + ((last - first) \div 2), first, last)

\* heapify that also swaps with a child equal to the root
RECURSIVE heapifyOnEqual(_, _, _)
heapifyOnEqual(heap, idx, end) ==
    LET left_i == 2 * idx + 1
        right_i == 2 * idx + 2
        j1 == IF left_i < end /\ ~PlayerLess(At(heap, left_i), At(heap, idx))
              THEN left_i ELSE idx
        j2 == IF right_i < end /\ ~PlayerLess(At(heap, right_i), At(heap, j1))
              THEN right_i ELSE j1
    IN IF j2 # idx THEN heapifyOnEqual(Swap(heap, idx, j2), j2, end) ELSE heap

\* void Offline::heapify(std::vector<T>& heap, int i, int end)
RECURSIVE heapify(_, _, _)
heapify(heap, idx, end) ==
    LET left_i == 2 * idx + 1
        right_i == 2 * idx + 2
        j1 == IF left_i < end /\ PlayerGreater(At(heap, left_i), At(heap, idx))
              THEN left_i ELSE idx
        j2 == IF right_i < end /\ PlayerGreater(At(heap, right_i), At(heap, j1))
              THEN right_i ELSE j1
    IN IF j2 # idx THEN heapify(Swap(heap, idx, j2), j2, end) ELSE heap

\* the levels a caller hands to replaceMin as target
TargetLevels == 0..(MaxLevel + 1)

Args(root, start, end, max, target) ==
    [root |-> root, start |-> start, end |-> end, max |-> max, target |-> target]

\* what a helper call leaves alone
HelperFrame ==
    UNCHANGED <<frames, returned, throws, population, players_, current_,
                reporting_interval, read, min_top, cutoffs_, top_10, i, result>>

\* the end of a helper call: a call that read outside the vector crashes or
\* goes on
HelperEnds(call) ==
    /\ touched' = call.touched
    /\ fault' = IF call.oob THEN "oob_read" ELSE fault
    /\ \/ /\ call.oob
          /\ pc' = "crashed"
          /\ UNCHANGED players
       \/ /\ players' = call.v
          /\ pc' = "done"

\* Online::percolateDown(root, start, end, max) on a range of players; on an
\* empty range root is start, as buildHeap calls it
PercolateDownCall ==
    /\ pc = "idle"
    /\ \E start \in 0..Len(players), max \in BOOLEAN :
         \E end \in start..Len(players) :
           \E root \in IF start = end THEN {start} ELSE start..(end - 1) :
              /\ args' = Args(root, start, end, max, Player(0, 0))
              /\ HelperEnds(percolateDownCall(players, root, start, end, max))
    /\ op' = "percolateDown"
    /\ HelperFrame

\* Online::replaceMin(first, last, target) on a range that is a min-heap
ReplaceMinCall ==
    /\ pc = "idle"
    /\ \E first \in 0..(Len(players) - 1), level \in TargetLevels :
         \E last \in (first + 1)..Len(players) :
              /\ IsMinHeap(Slice(players, first, last))
              /\ args' = Args(first, first, last, FALSE, Player(0, level))
              /\ HelperEnds([v |-> replaceMin(players, first, last, args'.target),
                             touched |-> {first} \cup
                                 percolateDownAccess(
                                     [players EXCEPT ![first + 1] = args'.target],
                                     first, first, last, FALSE),
                             oob |-> FALSE])
    /\ op' = "replaceMin"
    /\ HelperFrame

\* Online::buildHeap(first, last) on a range of players
BuildHeapCall ==
    /\ pc = "idle"
    /\ \E first \in 0..Len(players) :
         \E last \in first..Len(players) :
              /\ args' = Args(first, first, last, FALSE, Player(0, 0))
              /\ HelperEnds(buildHeap(players, first, last))
    /\ op' = "buildHeap"
    /\ HelperFrame

\* Offline::heapify(heap, i, end) with 0 <= i < end <= size
HeapifyCall ==
    /\ pc = "idle"
    /\ \E end \in 1..Len(players) :
         \E idx \in 0..(end - 1) :
              /\ args' = Args(idx, 0, end, TRUE, Player(0, 0))
              /\ HelperEnds([v |-> heapify(players, idx, end), touched |-> {},
                             oob |-> FALSE])
    /\ op' = "heapify"
    /\ HelperFrame

InitHeap ==
    /\ population \in SmallPopulations
    /\ players = population
    /\ players_ = <<>>
    /\ current_ = 0
    /\ pc = "idle"
    /\ op = "none"
    /\ reporting_interval = 1
    /\ read = 0
    /\ min_top = <<>>
    /\ cutoffs_ = EmptyMap
    /\ top_10 = 0
    /\ i = 0
    /\ result = NoResult
    /\ fault = "none"
    /\ returned = <<>>
    /\ throws = 0
    /\ args = NoArgs
    /\ touched = {}
    /\ frames = <<>>

NextHeap ==
    \/ PercolateDownCall
    \/ ReplaceMinCall
    \/ BuildHeapCall
    \/ HeapifyCall

SpecHeap == InitHeap /\ [][NextHeap]_vars

-----------------------------------------------------------------------------
(* Termination of rankIncoming, the stream and the heap primitives *)

\* C11: on a stream of total >= 1 players a call of rankIncoming returns, and
\* at the return exactly total players were pulled and remaining() = 0
C11_ReturnsWithStreamConsumed ==
    /\ []((Returned /\ total >= 1) =>
            /\ read = total
            /\ current_ = total
            /\ remaining(players_, current_) = 0)
    /\ (pc = "loop" /\ total >= 1) ~> Returned

\* a call returned from a stream longer than its reporting_interval
C11_Witness ==
    /\ Returned
    /\ total >= 3
    /\ reporting_interval = 2
    /\ read = total

\* C12: after j successful nextPlayer calls on a stream over n players
\* remaining() = n - j, the calls returned the first j players in order, and
\* remaining() = 0 exactly when all n were returned
C12_StreamCursor ==
    op \in {"none", "nextPlayer"} =>
        /\ Len(returned) <= total
        /\ remaining(players_, current_) = total - Len(returned)
        /\ returned = SubSeq(players_, 1, Len(returned))
        /\ (remaining(players_, current_) = 0 <=> Len(returned) = total)

\* the caller pulled every player of a stream of three or more
C12_Witness ==
    /\ op = "nextPlayer"
    /\ total >= 3
    /\ Len(returned) = total
    /\ throws = 0

\* C13: nextPlayer called with remaining() = 0 raises the exhausted-source
\* error and leaves the cursor alone, so remaining() is still 0 and the next
\* call raises again
C13_ExhaustedRaises ==
    [][(op' = "nextPlayer" /\ remaining(players_, current_) = 0) =>
          /\ throws' = throws + 1
          /\ fault' = "exhausted"
          /\ current_' = current_
          /\ returned' = returned
          /\ remaining(players_', current_') = 0]_vars

\* a non-empty stream was exhausted and nextPlayer then raised twice
C13_Witness ==
    /\ op = "nextPlayer"
    /\ total >= 1
    /\ Len(returned) = total
    /\ throws = 2

-----------------------------------------------------------------------------
(* Properties of the heap primitives *)

\* multiset of the players of a vector
BagOf(v) ==
    [r \in {v[x] : x \in 1..Len(v)} |-> Cardinality({x \in 1..Len(v) : v[x] = r})]

\* the positions outside [from, to) hold what they held in the population
OutsideUnchanged(from, to) ==
    /\ Len(players) = Len(population)
    /\ \A x \in 1..Len(players) : (x <= from \/ x > to) => players[x] = population[x]

\* node (an offset from start) lies in the subtree of the offset top
RECURSIVE InSubtree(_, _)
InSubtree(node, top) ==
    IF node <= top THEN node = top ELSE InSubtree((node - 1) \div 2, top)

\* the heap order between the offsets parent and child of the range at start
PairOrdered(v, start, parent, child, max) ==
    IF max THEN At(v, start + parent).level_ >= At(v, start + child).level_
    ELSE At(v, start + parent).level_ <= At(v, start + child).level_

\* every parent-child pair of the subtree of root in [start, end) is ordered,
\* the pairs whose parent is root left out when exceptRoot
SubtreeOrdered(v, root, start, end, max, exceptRoot) ==
    \A child \in 1..(end - start - 1) :
        LET parent == (child - 1) \div 2
        IN (InSubtree(parent, root - start) /\ ~(exceptRoot /\ parent = root - start))
               => PairOrdered(v, start, parent, child, max)

HelperDone(name) == op = name /\ pc = "done"

\* C14: replaceMin(first, last, target) on a non-empty min-heap range leaves
\* the range a min-heap holding the old players with the old root taken out
\* and target put in, and leaves every position outside the range alone
C14_ReplaceMinKeepsHeap ==
    HelperDone("replaceMin") =>
        /\ IsMinHeap(Slice(players, args.start, args.end))
        /\ BagOf(Slice(players, args.start, args.end)) =
              BagOf([Slice(population, args.start, args.end) EXCEPT ![1] = args.target])
        /\ OutsideUnchanged(args.start, args.end)

\* replaceMin on an inner range of three or more whose target sank below the
\* root
C14_Witness ==
    /\ HelperDone("replaceMin")
    /\ args.start > 0
    /\ args.end < Len(players)
    /\ args.end - args.start >= 3
    /\ At(players, args.start) # args.target

\* C15: for max and for min order, percolateDown on a range whose subtree of
\* root is heap-ordered except at the pairs under root leaves that subtree
\* heap-ordered and the range a permutation of what it held
C15_PercolateDownRestoresHeap ==
    (/\ HelperDone("percolateDown")
     /\ args.root < args.end
     /\ SubtreeOrdered(population, args.root, args.start, args.end, args.max, TRUE)) =>
        /\ SubtreeOrdered(players, args.root, args.start, args.end, args.max, FALSE)
        /\ BagOf(Slice(players, args.start, args.end)) =
              BagOf(Slice(population, args.start, args.end))
        /\ OutsideUnchanged(args.start, args.end)

\* a max-order percolateDown that met its precondition and moved the root two
\* levels down
C15_Witness ==
    /\ HelperDone("percolateDown")
    /\ args.max
    /\ args.root = args.start
    /\ SubtreeOrdered(population, args.root, args.start, args.end, args.max, TRUE)
    /\ \E deep \in (args.start + 3)..(args.end - 1) :
          At(players, deep) = At(population, args.root)

\* C16: percolateDown on a non-empty range with root inside it reads and
\* writes only positions of [start, end); at a node whose left child is the
\* last element it does not read position end
C16_PercolateDownStaysInRange ==
    (op = "percolateDown" /\ args.start < args.end) =>
        /\ pc = "done"
        /\ fault = "none"
        /\ touched \subseteq args.start..(args.end - 1)

\* percolateDown from the parent of a last element that is a left child, in a
\* range that ends before the vector does
C16_Witness ==
    /\ HelperDone("percolateDown")
    /\ args.end < Len(players)
    /\ (args.end - args.start) % 2 = 0
    /\ 2 * (args.root - args.start) + 1 = args.end - args.start - 1
    /\ (args.end - 1) \in touched

\* C17: on a range of length 0 or 1 buildHeap and percolateDown change no
\* element and read or write no position outside [start, end)
C17_ShortRangeNoOp ==
    (op \in {"buildHeap", "percolateDown"} /\ args.end - args.start <= 1) =>
        /\ pc = "done"
        /\ fault = "none"
        /\ players = population
        /\ touched \subseteq args.start..(args.end - 1)

\* C18: buildHeap on a range of length n >= 1 leaves the range a min-heap
\* holding the players it held
C18_BuildHeapMakesMinHeap ==
    (op = "buildHeap" /\ args.end - args.start >= 1) =>
        /\ pc = "done"
        /\ IsMinHeap(Slice(players, args.start, args.end))
        /\ BagOf(Slice(players, args.start, args.end)) =
              BagOf(Slice(population, args.start, args.end))
        /\ OutsideUnchanged(args.start, args.end)

\* buildHeap on an inner range of four or more that was no min-heap and
\* whose lowest player was not at its root
C18_Witness ==
    /\ HelperDone("buildHeap")
    /\ args.start > 0
    /\ args.end - args.start >= 4
    /\ ~IsMinHeap(Slice(population, args.start, args.end))
    /\ At(players, args.start) # At(population, args.start)

\* C19: heapify(heap, i, end) with 0 <= i < end <= size leaves the vector as
\* percolateDown(begin + i, begin, begin + end, true) leaves it
C19_HeapifyMatchesPercolateDown ==
    HelperDone("heapify") =>
        players = percolateDown(population, args.root, 0, args.end, TRUE)

\* heapify swapped at a node whose two children are level with each other
\* and above it
C19_Witness ==
    /\ HelperDone("heapify")
    /\ 2 * args.root + 2 < args.end
    /\ At(population, 2 * args.root + 1).level_ = At(population, 2 * args.root + 2).level_
    /\ At(population, 2 * args.root + 1).level_ > At(population, args.root).level_
    /\ players # population

-----------------------------------------------------------------------------
(* The partition, selection and sort helpers called on a range of a vector *)

\* the memory a vector is laid out in: its players and what follows them
Beyond(array, g) == array \o <<Player(0, g), Player(0, g)>>

\* the positions Offline::lomuto_partition reads or writes: array[j] and
\* array[pivot] in the loop, array[i] in the swaps
lomuto_partitionAccess(array, low, high, pivot) ==
    (low..(high - 1)) \cup {pivot, lomutoLoop(array, low, low, high, pivot).i}

\* the positions the while (true) loop of Offline::hoare_partition reads or
\* writes: every position each scan reads up to the one it stops at
RECURSIVE hoareLoopAccess(_, _, _, _, _, _)
hoareLoopAccess(array, idx, j, low, high, pivot_value) ==
    LET up == hoareScanUp(array, idx, high, pivot_value)
        down == hoareScanDown(array, j, low, pivot_value)
        reads == ((idx + 1)..up.at) \cup (down.at..(j - 1))
    IN IF up.at > down.at THEN reads
       ELSE reads \cup hoareLoopAccess(Swap(array, up.at, down.at), up.at, down.at,
                                       low, high, pivot_value)

\* the positions Offline::hoare_partition reads or writes
hoare_partitionAccess(array, low, high, pivot) ==
    {pivot} \cup hoareLoopAccess(array, low - 1, high + 1, low, high, At(array, pivot))

\* the positions Offline::quickSelect reads or writes
RECURSIVE quickSelectAccess(_, _, _, _)
quickSelectAccess(array, low, high, k) ==
    IF low <= high /\ low >= 0
    THEN LET part == lomuto_partition(array, low, high, high)
         IN lomuto_partitionAccess(array, low, high, high) \cup
            (IF part.index < k
             THEN quickSelectAccess(part.array, part.index + 1, high, k)
             ELSE quickSelectAccess(part.array, low, part.index - 1, k))
    ELSE {}

\* the positions Offline::quickSort reads or writes
RECURSIVE quickSortAccess(_, _, _)
quickSortAccess(array, low, high) ==
    IF low < high /\ low >= 0
    THEN LET part == hoare_partition(array, low, high, high)
             lower == quickSort(part.array, low, part.index)
         IN hoare_partitionAccess(array, low, high, high) \cup
            quickSortAccess(part.array, low, part.index) \cup
            quickSortAccess(lower.array, part.index + 1, high)
    ELSE {}

PartitionArgs(low, high, k) == [low |-> low, high |-> high, k |-> k]

PartitionFrame ==
    UNCHANGED <<frames, returned, throws, population, players_, current_,
                reporting_interval, read, min_top, cutoffs_, top_10, result>>

\* the end of a call that left memory as after and accessed the positions
\* reached: an access outside the vector crashes the call, or the call goes on
PartitionEnds(after, index, reached) ==
    LET oob == \E q \in reached : OutOfRange(players, q)
    IN /\ touched' = reached
       /\ fault' = IF oob THEN "oob_read" ELSE fault
       /\ \/ /\ oob
             /\ pc' = "crashed"
             /\ UNCHANGED <<players, i>>
          \/ /\ players' = SubSeq(after, 1, Len(players))
             /\ i' = index
             /\ pc' = "done"

\* Offline::lomuto_partition(array, low, high, high) as quickSelect calls it
LomutoPartitionCall ==
    /\ pc = "idle"
    /\ \E high \in 0..(Len(players) - 1) :
         \E low \in 0..high :
            LET part == lomuto_partition(players, low, high, high)
            IN /\ args' = PartitionArgs(low, high, 0)
               /\ PartitionEnds(part.array, part.index,
                                lomuto_partitionAccess(players, low, high, high))
    /\ op' = "lomuto_partition"
    /\ PartitionFrame

\* Offline::hoare_partition(array, low, high, high) as quickSort calls it
HoarePartitionCall ==
    /\ pc = "idle"
    /\ \E high \in 0..(Len(players) - 1), g \in GarbageLevels :
         \E low \in 0..(high - 1) :
            LET memory == Beyond(players, g)
                part == hoare_partition(memory, low, high, high)
            IN /\ args' = PartitionArgs(low, high, 0)
               /\ PartitionEnds(part.array, part.index,
                                hoare_partitionAccess(memory, low, high, high))
    /\ op' = "hoare_partition"
    /\ PartitionFrame

\* Offline::quickSelect(array, low, high, k) with any low and high from one
\* before the vector to one past it
QuickSelectCall ==
    /\ pc = "idle"
    /\ \E low \in (-1)..Len(players), high \in (-1)..Len(players),
          k \in 0..Len(players), g \in GarbageLevels :
            LET memory == Beyond(players, g)
            IN /\ args' = PartitionArgs(low, high, k)
               /\ PartitionEnds(quickSelect(memory, low, high, k), i,
                                quickSelectAccess(memory, low, high, k))
    /\ op' = "quickSelect"
    /\ PartitionFrame

\* Offline::quickSort(array, low, high) with any low and high from one
\* before the vector to one past it
QuickSortCall ==
    /\ pc = "idle"
    /\ \E low \in (-1)..Len(players), high \in (-1)..Len(players),
          g \in GarbageLevels :
            LET memory == Beyond(players, g)
            IN /\ args' = PartitionArgs(low, high, 0)
               /\ PartitionEnds(quickSort(memory, low, high).array, i,
                                quickSortAccess(memory, low, high))
    /\ op' = "quickSort"
    /\ PartitionFrame

\* longest vector the partition helpers are called on
MaxRange == 4

InitPartition == InitHeap /\ Len(population) <= MaxRange

NextPartition ==
    \/ LomutoPartitionCall
    \/ HoarePartitionCall
    \/ QuickSelectCall
    \/ QuickSortCall

SpecPartition == InitPartition /\ [][NextPartition]_vars

-----------------------------------------------------------------------------
(* quickSelectRank, quickSelect and quickSort statement by statement *)

\* the pending calls: each holds its function, the statement it is at, its
\* arguments and its locals
SelectFrame(at, low, high, k) ==
    [fn |-> "quickSelect", at |-> at, low |-> low, high |-> high, k |-> k]
SortFrame(at, low, high, pivot) ==
    [fn |-> "quickSort", at |-> at, low |-> low, high |-> high, pivot |-> pivot]
LomutoFrame(low, high, pivot, idx, j) ==
    [fn |-> "lomuto_partition", at |-> "loop", low |-> low, high |-> high,
     pivot |-> pivot, i |-> idx, j |-> j]
HoareFrame(at, low, high, pivot_value, idx, j) ==
    [fn |-> "hoare_partition", at |-> at, low |-> low, high |-> high,
     pivot_value |-> pivot_value, i |-> idx, j |-> j]

RankFrame(at) == [fn |-> "quickSelectRank", at |-> at]

\* populations of ten times two and three players: all level, rising,
\* falling, and a sawtooth over each trend
LivePopulations ==
    {Generated(n, m, 0, 1, 0, c) :
        n \in {MaxPop - 11, MaxPop - 1}, m \in {1, MaxMod}, c \in Trends}

QuickFrame ==
    UNCHANGED <<returned, throws, args, touched, population, players_, current_,
                reporting_interval, read, min_top, cutoffs_>>

\* the innermost call is in fn at the statement at
Innermost(fn, at) ==
    /\ pc = "running"
    /\ frames # <<>>
    /\ frames[1].fn = fn
    /\ frames[1].at = at

\* entry of quickSelectRank: top_10 and the call of quickSelect(players, 0,
\* players.size() - 1, top_10)
QuickSelectRankEnter ==
    /\ pc = "idle"
    /\ op' = "quickSelectRank"
    /\ top_10' = TopTenth(Len(players))
    /\ frames' = <<SelectFrame("entry", 0, Len(players) - 1, top_10'),
                   RankFrame("select")>>
    /\ pc' = "running"
    /\ UNCHANGED <<players, i, result, fault>>
    /\ QuickFrame

\* a caller's quickSelect(players, 0, size - 1, k)
QuickSelectEnter ==
    /\ pc = "idle"
    /\ op' = "quickSelect"
    /\ \E k \in 0..Len(players) :
          frames' = <<SelectFrame("entry", 0, Len(players) - 1, k)>>
    /\ pc' = "running"
    /\ UNCHANGED <<players, top_10, i, result, fault>>
    /\ QuickFrame

\* a caller's quickSort(players, 0, size - 1)
QuickSortEnter ==
    /\ pc = "idle"
    /\ op' = "quickSort"
    /\ frames' = <<SortFrame("entry", 0, Len(players) - 1, 0)>>
    /\ pc' = "running"
    /\ UNCHANGED <<players, top_10, i, result, fault>>
    /\ QuickFrame

\* quickSelect: if (low <= high && low >= 0), and the call of lomuto_partition
QuickSelectEntry ==
    /\ Innermost("quickSelect", "entry")
    /\ LET f == frames[1]
       IN frames' =
             IF f.low <= f.high /\ f.low >= 0
             THEN <<LomutoFrame(f.low, f.high, f.high, f.low, f.low),
                    SelectFrame("partitioned", f.low, f.high, f.k)>> \o Tail(frames)
             ELSE Tail(frames)
    /\ UNCHANGED <<players, pc, op, top_10, i, result, fault>>
    /\ QuickFrame

\* lomuto_partition: one iteration of for (int j = i; j < high; ++j)
LomutoIterate ==
    /\ Innermost("lomuto_partition", "loop")
    /\ frames[1].j < frames[1].high
    /\ LET f == frames[1]
           swaps == PlayerGreater(At(players, f.j), At(players, f.pivot))
       IN /\ players' = IF swaps THEN Swap(players, f.i, f.j) ELSE players
          /\ frames' = <<LomutoFrame(f.low, f.high, f.pivot,
                                     IF swaps THEN f.i + 1 ELSE f.i, f.j + 1)>>
                       \o Tail(frames)
    /\ UNCHANGED <<pc, op, top_10, i, result, fault>>
    /\ QuickFrame

\* lomuto_partition: std::swap(array[pivot], array[i]); return i
LomutoReturn ==
    /\ Innermost("lomuto_partition", "loop")
    /\ ~(frames[1].j < frames[1].high)
    /\ players' = Swap(players, frames[1].pivot, frames[1].i)
    /\ i' = frames[1].i
    /\ frames' = Tail(frames)
    /\ UNCHANGED <<pc, op, top_10, result, fault>>
    /\ QuickFrame

\* quickSelect: if (index < k) and the recursive call, after which the call
\* returns
QuickSelectRecurse ==
    /\ Innermost("quickSelect", "partitioned")
    /\ LET f == frames[1]
       IN frames' = <<IF i < f.k
                      THEN SelectFrame("entry", i + 1, f.high, f.k)
                      ELSE SelectFrame("entry", f.low, i - 1, f.k)>> \o Tail(frames)
    /\ UNCHANGED <<players, pc, op, top_10, i, result, fault>>
    /\ QuickFrame

\* quickSort: if (low < high && low >= 0), and the call of hoare_partition
\* with its i, j and pivot_value
QuickSortEntry ==
    /\ Innermost("quickSort", "entry")
    /\ LET f == frames[1]
       IN frames' =
             IF f.low < f.high /\ f.low >= 0
             THEN <<HoareFrame("up", f.low, f.high, At(players, f.high),
                               f.low - 1, f.high + 1),
                    SortFrame("partitioned", f.low, f.high, 0)>> \o Tail(frames)
             ELSE Tail(frames)
    /\ UNCHANGED <<players, pc, op, top_10, i, result, fault>>
    /\ QuickFrame

\* a scan of hoare_partition read position q: outside the vector the call
\* crashes or goes on with the scan at its end, the bound test being false
\* there; inside, the scan goes on while goesOn
HoareScans(f, idx, j, q, goesOn, next) ==
    IF OutOfRange(players, q)
    THEN /\ fault' = "oob_read"
         /\ \/ /\ pc' = "crashed"
               /\ UNCHANGED frames
            \/ /\ frames' = <<HoareFrame(next, f.low, f.high, f.pivot_value, idx, j)>>
                            \o Tail(frames)
               /\ UNCHANGED pc
    ELSE /\ frames' = <<HoareFrame(IF goesOn THEN f.at ELSE next, f.low, f.high,
                                   f.pivot_value, idx, j)>> \o Tail(frames)
         /\ UNCHANGED <<pc, fault>>

\* hoare_partition: i++ and the test (array[i] < pivot_value) && i <= high
HoareScanUp ==
    /\ Innermost("hoare_partition", "up")
    /\ LET f == frames[1]
           q == f.i + 1
       IN HoareScans(f, q, f.j, q,
                     PlayerLess(At(players, q), f.pivot_value) /\ q <= f.high, "down")
    /\ UNCHANGED <<players, op, top_10, i, result>>
    /\ QuickFrame

\* hoare_partition: j-- and the test (array[j] > pivot_value) && j >= low
HoareScanDown ==
    /\ Innermost("hoare_partition", "down")
    /\ LET f == frames[1]
           q == f.j - 1
       IN HoareScans(f, f.i, q, q,
                     PlayerGreater(At(players, q), f.pivot_value) /\ q >= f.low, "test")
    /\ UNCHANGED <<players, op, top_10, i, result>>
    /\ QuickFrame

\* the test that ends the partition as soon as the scans meet
HoareMet(idx, j) == idx >= j

\* if (i > j) break
HoareCrossed(idx, j) == idx > j

\* hoare_partition: the break and return j, or the swap
HoareTest ==
    /\ Innermost("hoare_partition", "test")
    /\ LET f == frames[1]
       IN IF HoareCrossed(f.i, f.j)
          THEN /\ i' = f.j
               /\ frames' = Tail(frames)
               /\ UNCHANGED players
          ELSE /\ players' = Swap(players, f.i, f.j)
               /\ frames' = <<HoareFrame("up", f.low, f.high, f.pivot_value, f.i, f.j)>>
                            \o Tail(frames)
               /\ UNCHANGED i
    /\ UNCHANGED <<pc, op, top_10, result, fault>>
    /\ QuickFrame

\* quickSort: int pivot = the partition's result; quickSort(array, low, pivot)
QuickSortFirst ==
    /\ Innermost("quickSort", "partitioned")
    /\ LET f == frames[1]
       IN frames' = <<SortFrame("entry", f.low, i, 0),
                      SortFrame("second", f.low, f.high, i)>> \o Tail(frames)
    /\ UNCHANGED <<players, pc, op, top_10, i, result, fault>>
    /\ QuickFrame

\* quickSort: quickSort(array, pivot + 1, high), after which the call returns
QuickSortSecond ==
    /\ Innermost("quickSort", "second")
    /\ LET f == frames[1]
       IN frames' = <<SortFrame("entry", f.pivot + 1, f.high, 0)>> \o Tail(frames)
    /\ UNCHANGED <<players, pc, op, top_10, i, result, fault>>
    /\ QuickFrame

\* quickSelectRank: quickSelect returned; the call of quickSort(players, 0,
\* top_10 - 1)
QuickSelectRankSorts ==
    /\ Innermost("quickSelectRank", "select")
    /\ frames' = <<SortFrame("entry", 0, top_10 - 1, 0), RankFrame("sort")>>
    /\ UNCHANGED <<players, pc, op, top_10, i, result, fault>>
    /\ QuickFrame

\* quickSelectRank: quickSort returned; the return of the first top_10 players
QuickSelectRankReturns ==
    /\ Innermost("quickSelectRank", "sort")
    /\ result' = [top_ |-> Slice(players, 0, top_10), cutoffs_ |-> EmptyMap]
    /\ frames' = <<>>
    /\ pc' = "done"
    /\ UNCHANGED <<players, op, top_10, i, fault>>
    /\ QuickFrame

\* the return of a caller's quickSelect or quickSort
CallsReturn ==
    /\ pc = "running"
    /\ frames = <<>>
    /\ pc' = "done"
    /\ UNCHANGED <<players, op, top_10, i, result, fault, frames>>
    /\ QuickFrame

\* the statements of a call that was entered
Runs ==
    \/ QuickSelectEntry
    \/ LomutoIterate
    \/ LomutoReturn
    \/ QuickSelectRecurse
    \/ QuickSortEntry
    \/ HoareScanUp
    \/ HoareScanDown
    \/ HoareTest
    \/ QuickSortFirst
    \/ QuickSortSecond
    \/ QuickSelectRankSorts
    \/ QuickSelectRankReturns
    \/ CallsReturn

InitQuick ==
    /\ population \in {v \in SmallPopulations : Len(v) <= MaxRange} \cup LivePopulations
    /\ players = population
    /\ players_ = <<>>
    /\ current_ = 0
    /\ pc = "idle"
    /\ op = "none"
    /\ reporting_interval = 1
    /\ read = 0
    /\ min_top = <<>>
    /\ cutoffs_ = EmptyMap
    /\ top_10 = 0
    /\ i = 0
    /\ result = NoResult
    /\ fault = "none"
    /\ returned = <<>>
    /\ throws = 0
    /\ args = NoArgs
    /\ touched = {}
    /\ frames = <<>>

NextQuick ==
    \/ QuickSelectRankEnter
    \/ QuickSelectEnter
    \/ QuickSortEnter
    \/ Runs

\* a call, once entered, runs on: nothing suspends its statements
SpecQuick == InitQuick /\ [][NextQuick]_vars /\ WF_vars(Runs)

-----------------------------------------------------------------------------
(* Invariants of the loop of rankIncoming *)

\* C21: at the end of every loop iteration of rankIncoming, with
\* reporting_interval >= 1, min_top holds min(read, reporting_interval)
\* players, and once read >= reporting_interval it is in min-heap order, so
\* min_top[0] holds its lowest level
C21_MinTopBoundedHeap ==
    (op = "rankIncoming" /\ pc = "loop" /\ reporting_interval >= 1) =>
        /\ Len(min_top) = Min(read, reporting_interval)
        /\ read >= reporting_interval =>
              /\ IsMinHeap(min_top)
              /\ min_top[1].level_ = MinLevel(min_top)

\* an iteration past the interval put its player into a min_top of three
C21_Witness ==
    /\ op = "rankIncoming"
    /\ pc = "loop"
    /\ reporting_interval = 3
    /\ read > reporting_interval
    /\ \E x \in 2..Len(min_top) : min_top[x] = players_[read]

\* C26: for total >= 1 the cutoffs rankIncoming records do not decrease with
\* the milestone: cutoffs_[m1] <= cutoffs_[m2] for all keys m1 < m2
C26_CutoffsMonotone ==
    (op = "rankIncoming" /\ total >= 1) =>
        /\ \A m1, m2 \in DOMAIN cutoffs_ : m1 < m2 => cutoffs_[m1] <= cutoffs_[m2]
        /\ Returned =>
              \A m1, m2 \in DOMAIN result.cutoffs_ :
                  m1 < m2 => result.cutoffs_[m1] <= result.cutoffs_[m2]

\* a call returned three cutoffs, each above the one before, the last of
\* them the terminal one
C26_Witness ==
    /\ Returned
    /\ total % reporting_interval # 0
    /\ Cardinality(DOMAIN result.cutoffs_) = 3
    /\ \A m1, m2 \in DOMAIN result.cutoffs_ :
          m1 < m2 => result.cutoffs_[m1] < result.cutoffs_[m2]

-----------------------------------------------------------------------------
(* Properties of the partition, selection and sort helpers *)

\* the call was handed a range inside the vector
InVector == 0 <= args.low /\ args.low <= args.high /\ args.high < Len(population)

\* C22: for 0 <= low <= high < size, lomuto_partition(array, low, high, high)
\* returns p in [low, high]; array[p] is the former array[high], every player
\* in [low, p) is strictly above it and every player in (p, high] is at or
\* below it; [low, high] is a permutation of what it held and the positions
\* outside it are unchanged
C22_LomutoPartitions ==
    (op = "lomuto_partition" /\ InVector) =>
        /\ pc = "done"
        /\ args.low <= i /\ i <= args.high
        /\ At(players, i) = At(population, args.high)
        /\ \A q \in args.low..(i - 1) :
              At(players, q).level_ > At(population, args.high).level_
        /\ \A q \in (i + 1)..args.high :
              At(players, q).level_ <= At(population, args.high).level_
        /\ BagOf(Slice(players, args.low, args.high + 1)) =
              BagOf(Slice(population, args.low, args.high + 1))
        /\ OutsideUnchanged(args.low, args.high + 1)

\* a partition of a range past the first player that put players on both
\* sides of a pivot that has an equal
C22_Witness ==
    /\ op = "lomuto_partition"
    /\ pc = "done"
    /\ 0 < args.low
    /\ args.low < i /\ i < args.high
    /\ \E q \in (i + 1)..args.high : At(players, q).level_ = At(players, i).level_

\* C24: for 0 <= low <= high < size, after quickSort(array, low, high) the
\* positions [low, high] are in ascending order and hold a permutation of
\* what they held, and every position outside [low, high] holds the player
\* it held
C24_QuickSortSortsRange ==
    (op = "quickSort" /\ pc = "done" /\ InVector) =>
        /\ IsAscending(Slice(players, args.low, args.high + 1))
        /\ BagOf(Slice(players, args.low, args.high + 1)) =
              BagOf(Slice(population, args.low, args.high + 1))
        /\ OutsideUnchanged(args.low, args.high + 1)

\* quickSort put an inner range of three in order that was in falling order,
\* next to players it left out of order
C24_Witness ==
    /\ op = "quickSort"
    /\ pc = "done"
    /\ args.low = 1
    /\ args.high = Len(players) - 1
    /\ args.high - args.low = 2
    /\ At(population, 1).level_ > At(population, 2).level_
    /\ At(population, 2).level_ > At(population, 3).level_
    /\ At(players, 0).level_ > At(players, 1).level_

\* C25: quickSelect and quickSort change no player and access no element
\* whenever low > high, low < 0 or high >= size
C25_OutsideRangeNoOp ==
    (/\ op \in {"quickSelect", "quickSort"}
     /\ \/ args.low > args.high
        \/ args.low < 0
        \/ args.high >= Len(population)) =>
        /\ pc = "done"
        /\ fault = "none"
        /\ players = population
        /\ touched = {}
    /\ frames = <<>>

\* C27: for 0 <= low < high < size, hoare_partition(array, low, high, high)
\* and quickSort(array, low, high) read and write only positions of
\* [low, high]
C27_HoareStaysInRange ==
    (/\ op \in {"hoare_partition", "quickSort"}
     /\ InVector
     /\ args.low < args.high) =>
        /\ pc = "done"
        /\ fault = "none"
        /\ touched \subseteq args.low..args.high

-----------------------------------------------------------------------------
(* Termination of quickSelectRank *)

\* number of positions of the range of a pending call
RangeSize(f) == f.high - f.low + 1

\* C23: quickSelectRank terminates on every population: every recursive
\* quickSelect call is on a strictly smaller range, hoare_partition on a
\* range with low < high returns an index in [low, high - 1], so both
\* recursive quickSort calls are on strictly smaller ranges, and every call
\* entered comes to its end
C23_QuickSelectRankTerminates ==
    /\ [][(pc = "running" /\ frames # <<>> /\ frames' # <<>>) =>
             /\ (frames[1].fn \in {"quickSelect", "quickSort"}
                    /\ frames[1].at # "entry") =>
                   RangeSize(frames'[1]) < RangeSize(frames[1])
             /\ (frames[1].fn = "hoare_partition" /\ Len(frames') < Len(frames)) =>
                   (frames[1].low <= i' /\ i' <= frames[1].high - 1)]_vars
    /\ (pc = "running" /\ op = "quickSelectRank") ~> (pc = "done")
    /\ (pc = "running") ~> (pc \in {"done", "crashed"})

\* quickSelectRank returned three players of a population that was in
\* ascending order or all level
C23_Witness ==
    /\ pc = "done"
    /\ op = "quickSelectRank"
    /\ frames = <<>>
    /\ top_10 = 3
    /\ IsAscending(population)
    /\ Len(result.top_) = 3

====
